---------------------------- MODULE Spec2Model ----------------------------
(***************************************************************************)
(* Model of the spell-card generator's text fitting engine                 *)
(* (v2/src/text_renderer.py) and of its PDF page compositor                *)
(* (src/pdf_generator.py).                                                 *)
(*                                                                         *)
(* A text is a sequence of one-character strings.  A wrapped block is a    *)
(* sequence of entries, each a line (a sequence of characters) or the      *)
(* paragraph-break marker None.                                            *)
(***************************************************************************)
EXTENDS Integers, Sequences, FiniteSets, TLC

VARIABLES
    pc,                 \* position of the modelled call
    text,               \* the text handed to the renderer
    wrap_width,         \* character budget handed to wrap_text
    lines,              \* the block wrap_text returned
    char_width,         \* width measured for the reference glyph "M"
    max_width,          \* box width in pixels
    max_height,         \* box height in pixels
    min_size,           \* solver: smallest size of the range
    max_size,           \* solver: largest size of the range
    line_spacing,       \* solver: extra pixels after a text line
    paragraph_spacing,  \* solver: pixels of a paragraph break
    low, high, best,    \* solver: locals of find_optimal_font_size
    iterations,         \* solver: rounds of the while loop run so far
    config,             \* pdf: the GridConfig handed to the generator
    mode,               \* pdf: which generator class is used
    page_width, page_height,    \* pdf: generator.page_size
    card_width, card_height,    \* pdf: generator.card_width/card_height
    bleed,              \* pdf: CutReadyPDFGenerator.bleed
    positions,          \* pdf: generator.positions
    back_order,         \* pdf: generator.back_order
    card_names,         \* pdf: argument of generate_pdf
    absent,             \* pdf: image files that do not exist in image_dir
    groups,             \* pdf: local of generate_pdf
    group_no,           \* pdf: groups the page loop has gone through
    canvas,             \* pdf: the pages shown so far, each a sequence of
                        \*      drawing operations
    missing_files,      \* pdf: local of generate_pdf
    result,             \* pdf: the dictionary generate_pdf returned
    spells,             \* batch: argument of process_spells (spell names)
    spell_no,           \* batch: spells the loop has gone through
    results,            \* batch: local of process_spells, name -> result
    output_files,       \* batch: image files written to output_dir
    handled,            \* batch: the calls of _process_single_spell made,
                        \*        in order, each with what the card
                        \*        generator did
    args,               \* cli: the parsed arguments (no_pdf, keep_images)
    pdf_path,           \* cli: local of _execute, set when _generate_pdf
                        \*      returned
    deleted,            \* cli: the files os.remove has removed
    messages,           \* cli: the errors and warnings _execute reported
    exit_code,          \* cli: what _execute returned
    fn,                 \* render: the method called
    anchor,             \* render: center or top_left, <<x, y>>
    fixed,              \* render: the caller gave a wrap_width
    font_size,          \* render: local of the render methods
    current_y,          \* render: local of the render methods
    line_no,            \* render: lines the drawing loop has gone through
    drawn               \* render: the draw.text calls made, in order

textVars == <<text, wrap_width, lines, char_width, max_width, max_height,
              min_size, max_size, line_spacing, paragraph_spacing,
              low, high, best, iterations>>

pdfVars == <<config, mode, page_width, page_height, card_width, card_height,
             bleed, positions, back_order, card_names, absent, groups,
             group_no, canvas, missing_files, result>>

batchVars == <<spells, spell_no, results, output_files, handled>>

cliVars == <<args, pdf_path, deleted, messages, exit_code>>

renderVars == <<fn, anchor, fixed, font_size, current_y, line_no, drawn>>

vars == <<pc, textVars, pdfVars, batchVars, cliVars, renderVars>>

-----------------------------------------------------------------------------
(* Bounds of the model. *)

\* longest text given to the solver
MaxLen == 4
\* longest text given to wrap_text alone
WrapMaxLen == 5
\* largest font size of a solver range
MaxSize == 3
\* largest character budget a caller passes to wrap_text
MaxWrap == 4

\* "a": a narrow lower-case letter, "W": a wide capital, then blank and newline
Alphabet == {"a", "W", " ", "\n"}

TextsUpTo(n) == UNION {[1..k -> Alphabet] : k \in 0..n}

\* box sizes (pixels) and spacings the solver is tried on
BoxWidths == {1, 6, 9}
BoxHeights == {2, 5, 12}
Spacings == {<<0, 1>>, <<1, 3>>}

\* inputs calculate_wrap_width is tried on, zero glyph width and
\* non-positive box widths included
ProbeCharWidths == {0, 1, 2}
ProbeWidths == {-3, 0, 1, 5}

\* the paragraph-break marker of a wrapped block
None == <<"None">>

-----------------------------------------------------------------------------
(* Arithmetic helpers. *)

Max(a, b) == IF a >= b THEN a ELSE b

\* int(a / b) of Python for b > 0: the quotient truncated towards zero
TruncDiv(a, b) == IF a >= 0 THEN a \div b ELSE -((-a) \div b)

RECURSIVE Flatten(_)
Flatten(ss) == IF ss = <<>> THEN <<>> ELSE Head(ss) \o Flatten(Tail(ss))

-----------------------------------------------------------------------------
(* Text metrics: measure_text.  The font is a proportional one: the        *)
(* advance of a glyph and the height of its ink grow linearly with the     *)
(* size; "W" is wider than the reference glyph "M", as in most fonts.      *)

GlyphAdvance(c) ==
    CASE c = "a" -> 1
      [] c = " " -> 1
      [] c = "M" -> 2
      [] c = "W" -> 3

GlyphInk(c) ==
    CASE c = "a" -> 1
      [] c = " " -> 0
      [] c = "M" -> 2
      [] c = "W" -> 2

RECURSIVE AdvanceSum(_)
AdvanceSum(s) == IF s = <<>> THEN 0 ELSE GlyphAdvance(Head(s)) + AdvanceSum(Tail(s))

RECURSIVE InkMax(_)
InkMax(s) == IF s = <<>> THEN 0 ELSE Max(GlyphInk(Head(s)), InkMax(Tail(s)))

\* measure_text(text, font_size)[0]
MeasureWidth(s, size) == size * AdvanceSum(s)
\* measure_text(text, font_size)[1]
MeasureHeight(s, size) == size * InkMax(s)

\* calculate_wrap_width, from the measured width cw of "M"
wrap_width_for(cw, mw) ==
    IF cw = 0 THEN 1 ELSE Max(1, TruncDiv(mw, cw))

calculate_wrap_width(size, mw) == wrap_width_for(MeasureWidth(<<"M">>, size), mw)

-----------------------------------------------------------------------------
(* Wrapping: str.splitlines, str.strip and textwrap.wrap as wrap_text      *)
(* calls them (default options: long words are broken, white space at the  *)
(* ends of a line is dropped).                                             *)

IsBlank(s) == \A i \in 1..Len(s) : s[i] = " "

RECURSIVE SplitLinesFrom(_, _, _)
SplitLinesFrom(t, i, cur) ==
    IF i > Len(t) THEN (IF cur = <<>> THEN <<>> ELSE <<cur>>)
    ELSE IF t[i] = "\n" THEN <<cur>> \o SplitLinesFrom(t, i + 1, <<>>)
    ELSE SplitLinesFrom(t, i + 1, Append(cur, t[i]))

\* text.splitlines()
SplitLines(t) == SplitLinesFrom(t, 1, <<>>)

\* TextWrapper._split: the maximal runs of blanks and of non-blanks
RECURSIVE SplitChunksFrom(_, _, _)
SplitChunksFrom(p, i, cur) ==
    IF i > Len(p) THEN (IF cur = <<>> THEN <<>> ELSE <<cur>>)
    ELSE IF cur # <<>> /\ ((p[i] = " ") # (cur[1] = " "))
         THEN <<cur>> \o SplitChunksFrom(p, i + 1, <<p[i]>>)
         ELSE SplitChunksFrom(p, i + 1, Append(cur, p[i]))

SplitChunks(p) == SplitChunksFrom(p, 1, <<>>)

\* inner loop of _wrap_chunks: chunks are taken while they fit
RECURSIVE FillLine(_, _, _, _)
FillLine(chunks, width, cur_line, cur_len) ==
    IF chunks # <<>> /\ cur_len + Len(Head(chunks)) <= width
    THEN FillLine(Tail(chunks), width, Append(cur_line, Head(chunks)),
                  cur_len + Len(Head(chunks)))
    ELSE [rest |-> chunks, cur_line |-> cur_line, cur_len |-> cur_len]

\* _handle_long_word as it runs with break_long_words=False
handle_long_word_whole(f, width) ==
    IF f.cur_line = <<>>
    THEN [rest |-> Tail(f.rest), cur_line |-> <<Head(f.rest)>>]
    ELSE [rest |-> f.rest, cur_line |-> f.cur_line]

\* the slice kept for the next line starts one character too far
handle_long_word_drop(f, width) ==
    LET space_left == IF width < 1 THEN 1 ELSE width - f.cur_len
        chunk == Head(f.rest)
    IN  [rest |-> <<SubSeq(chunk, space_left + 2, Len(chunk))>> \o Tail(f.rest),
         cur_line |-> Append(f.cur_line, SubSeq(chunk, 1, space_left))]

\* _handle_long_word, break_long_words left at its default (True)
handle_long_word(f, width) ==
    LET space_left == IF width < 1 THEN 1 ELSE width - f.cur_len
        chunk == Head(f.rest)
    IN  [rest |-> <<SubSeq(chunk, space_left + 1, Len(chunk))>> \o Tail(f.rest),
         cur_line |-> Append(f.cur_line, SubSeq(chunk, 1, space_left))]

\* outer loop of _wrap_chunks, one line per round
RECURSIVE WrapChunks(_, _, _)
WrapChunks(chunks, width, out) ==
    IF chunks = <<>> THEN out
    ELSE
      LET c0 == IF IsBlank(Head(chunks)) /\ out # <<>> THEN Tail(chunks) ELSE chunks
          f  == FillLine(c0, width, <<>>, 0)
          g  == IF f.rest # <<>> /\ Len(Head(f.rest)) > width
                THEN handle_long_word(f, width)
                ELSE [rest |-> f.rest, cur_line |-> f.cur_line]
          cl == IF g.cur_line # <<>> /\ IsBlank(g.cur_line[Len(g.cur_line)])
                THEN SubSeq(g.cur_line, 1, Len(g.cur_line) - 1)
                ELSE g.cur_line
      IN  WrapChunks(g.rest, width,
                     IF cl # <<>> THEN Append(out, Flatten(cl)) ELSE out)

\* textwrap.wrap(para, width=width), for width >= 1
textwrap_wrap(para, width) == WrapChunks(SplitChunks(para), width, <<>>)

\* a blank paragraph leaves no marker
RECURSIVE WrapParagraphsSkipBlank(_, _)
WrapParagraphsSkipBlank(paras, width) ==
    IF paras = <<>> THEN <<>>
    ELSE (IF ~IsBlank(Head(paras)) THEN textwrap_wrap(Head(paras), width)
          ELSE <<>>) \o WrapParagraphsSkipBlank(Tail(paras), width)

\* the loop of wrap_text over the paragraphs
RECURSIVE WrapParagraphs(_, _)
WrapParagraphs(paras, width) ==
    IF paras = <<>> THEN <<>>
    ELSE (IF ~IsBlank(Head(paras)) THEN textwrap_wrap(Head(paras), width)
          ELSE <<None>>) \o WrapParagraphs(Tail(paras), width)

\* wrap_text raises ValueError: textwrap.wrap is reached with width <= 0
wrap_text_raises(t, width) ==
    width <= 0 /\ \E i \in 1..Len(SplitLines(t)) : ~IsBlank(SplitLines(t)[i])

wrap_text(t, width) == WrapParagraphs(SplitLines(t), width)

-----------------------------------------------------------------------------
(* Block height: calculate_text_height. *)

RECURSIVE SumHeights(_, _, _, _)
SumHeights(ls, size, lsp, psp) ==
    IF ls = <<>> THEN 0
    ELSE (IF Head(ls) = None THEN psp
          ELSE MeasureHeight(Head(ls), size) + lsp)
         + SumHeights(Tail(ls), size, lsp, psp)

\* (the trailing line spacing removed from every block that is not empty)
calculate_text_height_any_last(ls, size, lsp, psp) ==
    LET total_height == SumHeights(ls, size, lsp, psp)
    IN  IF ls # <<>> THEN total_height - lsp ELSE total_height

calculate_text_height(ls, size, lsp, psp) ==
    LET total_height == SumHeights(ls, size, lsp, psp)
    IN  IF total_height > 0 /\ ls # <<>> /\ ls[Len(ls)] # None
        THEN total_height - lsp
        ELSE total_height

-----------------------------------------------------------------------------
(* The font-fit solver: find_optimal_font_size. *)

\* steps 1 to 4 of the loop body: the test made at size mid
LinesFitWidth(ls, size, mw) ==
    \A i \in 1..Len(ls) : ls[i] = None \/ MeasureWidth(ls[i], size) <= mw

FitsAt(t, size, mw, mh, lsp, psp) ==
    LET ls == wrap_text(t, calculate_wrap_width(size, mw))
    IN  /\ LinesFitWidth(ls, size, mw)
        /\ calculate_text_height(ls, size, lsp, psp) <= mh

Fits(size) ==
    FitsAt(text, size, max_width, max_height, line_spacing, paragraph_spacing)

\* step 5 of the loop body: the three assignments
\* (best taken from every tested size)
NextBestAlways(fits, mid, b) == mid
NextBest(fits, mid, b) == IF fits THEN mid ELSE b

\* (the upper half searched from mid, not from mid + 1)
NextLowStuck(fits, mid, lo) == IF fits THEN mid ELSE lo
NextLow(fits, mid, lo) == IF fits THEN mid + 1 ELSE lo

NextHigh(fits, mid, hi) == IF fits THEN hi ELSE mid - 1

\* no batch is run
NoBatch ==
    /\ spells = <<>>
    /\ spell_no = 0
    /\ results = <<>>
    /\ output_files = {}
    /\ handled = <<>>

\* no render method is running
NoRender ==
    /\ fn = "none"
    /\ anchor = <<>>
    /\ fixed = FALSE
    /\ font_size = 0
    /\ current_y = 0
    /\ line_no = 0
    /\ drawn = <<>>

\* no command line run is under way
NoCli ==
    /\ args = <<>>
    /\ pdf_path = <<>>
    /\ deleted = {}
    /\ messages = <<>>
    /\ exit_code = <<>>

\* no PDF generator exists while the text engine is exercised
NoPdf ==
    /\ config = <<>>
    /\ mode = "none"
    /\ page_width = 0 /\ page_height = 0
    /\ card_width = 0 /\ card_height = 0
    /\ bleed = 0
    /\ positions = <<>>
    /\ back_order = <<>>
    /\ card_names = <<>>
    /\ absent = {}
    /\ groups = <<>>
    /\ group_no = 0
    /\ canvas = <<>>
    /\ missing_files = <<>>
    /\ result = <<>>

InitSolver ==
    /\ text \in TextsUpTo(MaxLen)
    /\ min_size \in 1..MaxSize
    /\ max_size \in min_size..MaxSize
    /\ max_width \in BoxWidths
    /\ max_height \in BoxHeights
    /\ \E sp \in Spacings : line_spacing = sp[1] /\ paragraph_spacing = sp[2]
    /\ low = min_size
    /\ high = max_size
    /\ best = min_size
    /\ iterations = 0
    /\ pc = "loop"
    /\ wrap_width = <<>>
    /\ lines = <<>>
    /\ char_width = 0
    /\ NoPdf
    /\ NoBatch
    /\ NoCli
    /\ NoRender

\* one iteration of the while loop
SolveStep ==
    /\ pc = "loop"
    /\ low <= high
    /\ LET mid == (low + high) \div 2
           w   == calculate_wrap_width(mid, max_width)
       IN  IF wrap_text_raises(text, w)
           THEN /\ pc' = "ValueError"
                /\ UNCHANGED <<low, high, best, iterations>>
           ELSE /\ best' = NextBest(Fits(mid), mid, best)
                /\ low' = NextLow(Fits(mid), mid, low)
                /\ high' = NextHigh(Fits(mid), mid, high)
                /\ iterations' = iterations + 1
                /\ pc' = "loop"
    /\ UNCHANGED <<text, wrap_width, lines, char_width, max_width, max_height,
                   min_size, max_size, line_spacing, paragraph_spacing>>
    /\ UNCHANGED <<renderVars, pdfVars, batchVars, cliVars>>

\* the loop condition fails: return best
SolveReturn ==
    /\ pc = "loop"
    /\ low > high
    /\ pc' = "done"
    /\ UNCHANGED <<text, wrap_width, lines, char_width, max_width, max_height,
                   min_size, max_size, line_spacing, paragraph_spacing,
                   low, high, best, iterations>>
    /\ UNCHANGED <<renderVars, pdfVars, batchVars, cliVars>>

NextSolver == SolveStep \/ SolveReturn

\* the loop is a sequential program: it keeps running until it returns
SpecSolver == InitSolver /\ [][NextSolver]_vars /\ WF_vars(NextSolver)

-----------------------------------------------------------------------------
(* wrap_text as the renderers reach it (render_text_centered): the budget  *)
(* is the caller's wrap_width, or calculate_wrap_width's result when the   *)
(* caller gave none.                                                       *)

InitWrap ==
    /\ pc = "start"
    /\ text \in TextsUpTo(WrapMaxLen)
    /\ wrap_width \in {<<>>} \cup {<<n>> : n \in -1..MaxWrap}
    /\ lines = <<>>
    /\ char_width = 0
    /\ max_width = 0
    /\ max_height = 0
    /\ min_size = 0
    /\ max_size = 0
    /\ line_spacing = 0
    /\ paragraph_spacing = 0
    /\ low = 0
    /\ high = 0
    /\ best = 0
    /\ iterations = 0
    /\ NoPdf
    /\ NoBatch
    /\ NoCli
    /\ NoRender

\* wrap_width is None: the budget is computed from the measured "M"
CalcWrapWidth ==
    /\ pc = "start"
    /\ wrap_width = <<>>
    /\ \E cw \in ProbeCharWidths, mw \in ProbeWidths :
          /\ char_width' = cw
          /\ max_width' = mw
          /\ wrap_width' = <<wrap_width_for(cw, mw)>>
    /\ pc' = "budget"
    /\ UNCHANGED <<text, lines, max_height, min_size, max_size, line_spacing,
                   paragraph_spacing, low, high, best, iterations>>
    /\ UNCHANGED <<renderVars, pdfVars, batchVars, cliVars>>

\* lines = self.wrap_text(text, wrap_width)
WrapText ==
    /\ pc \in {"start", "budget"}
    /\ wrap_width # <<>>
    /\ IF wrap_text_raises(text, wrap_width[1])
       THEN pc' = "ValueError" /\ lines' = lines
       ELSE pc' = "wrapped" /\ lines' = wrap_text(text, wrap_width[1])
    /\ UNCHANGED <<text, wrap_width, char_width, max_width, max_height,
                   min_size, max_size, line_spacing, paragraph_spacing,
                   low, high, best, iterations>>
    /\ UNCHANGED <<renderVars, pdfVars, batchVars, cliVars>>

NextWrap == CalcWrapWidth \/ WrapText

SpecWrap == InitWrap /\ [][NextWrap]_vars

-----------------------------------------------------------------------------
(* The render methods: render_text_centered and render_text_left_aligned. *)
(* The image is the sequence of the draw.text calls made; the font of a   *)
(* call is given by its size.                                             *)

\* longest text handed to a render method
RenderMaxLen == 3

\* the boxes <<max_width, max_height>>, the point the text is placed at,
\* and the budgets a caller of render_text_centered fixes
RenderBoxes == {<<6, 5>>, <<9, 12>>, <<9, 30>>}
Anchors == {<<5, 20>>}
FixedWraps == {<<0>>, <<1>>, <<MaxWrap>>}

\* the spacings render_text_centered works with: the defaults of
\* find_optimal_font_size and calculate_text_height, and the numbers
\* written in its drawing loop
DEFAULT_LINE_SPACING == 2
DEFAULT_PARAGRAPH_SPACING == 10

\* find_optimal_font_size as a function: the loop of SolveStep run to its
\* end
RECURSIVE binary_search(_, _, _, _, _, _, _, _)
binary_search(lo, hi, b, t, mw, mh, lsp, psp) ==
    IF lo > hi THEN b
    ELSE LET mid == (lo + hi) \div 2
             fits == FitsAt(t, mid, mw, mh, lsp, psp)
         IN  binary_search(NextLow(fits, mid, lo), NextHigh(fits, mid, hi),
                           NextBest(fits, mid, b), t, mw, mh, lsp, psp)

find_optimal_font_size(t, mn, mx, mw, mh, lsp, psp) ==
    binary_search(mn, mx, mn, t, mw, mh, lsp, psp)

\* current_y += line_height + line_spacing
\* (no spacing added after a line)
advance_no_spacing(line_height, lsp) == line_height
advance(line_height, lsp) == line_height + lsp

\* where the first line is drawn
start_y(f, a, ls, size) ==
    IF f = "render_text_centered"
    THEN a[2] - (calculate_text_height(ls, size, DEFAULT_LINE_SPACING,
                                       DEFAULT_PARAGRAPH_SPACING) \div 2)
    ELSE a[2]

\* the x of a line
line_x(f, a, line, size) ==
    IF f = "render_text_centered"
    THEN a[1] - (MeasureWidth(line, size) \div 2)
    ELSE a[1]

InitRender ==
    /\ pc = "render"
    /\ text \in TextsUpTo(RenderMaxLen)
    /\ min_size \in 1..MaxSize
    /\ max_size \in min_size..MaxSize
    /\ \E box \in RenderBoxes : max_width = box[1] /\ max_height = box[2]
    /\ anchor \in Anchors
    /\ \/ /\ fn = "render_text_centered"
          /\ wrap_width \in {<<>>} \cup FixedWraps
          /\ line_spacing = DEFAULT_LINE_SPACING
          /\ paragraph_spacing = DEFAULT_PARAGRAPH_SPACING
       \/ /\ fn = "render_text_left_aligned"
          /\ wrap_width = <<>>
          /\ \E sp \in Spacings :
                line_spacing = sp[1] /\ paragraph_spacing = sp[2]
    /\ fixed = (wrap_width # <<>>)
    /\ font_size = 0
    /\ current_y = 0
    /\ line_no = 0
    /\ drawn = <<>>
    /\ lines = <<>>
    /\ char_width = 0
    /\ low = 0
    /\ high = 0
    /\ best = 0
    /\ iterations = 0
    /\ NoPdf
    /\ NoBatch
    /\ NoCli

\* no wrap_width given: the size is the solver's, the budget the one
\* calculate_wrap_width gives for it
RenderFindSize ==
    /\ pc = "render"
    /\ wrap_width = <<>>
    /\ font_size' = find_optimal_font_size(text, min_size, max_size,
                                           max_width, max_height,
                                           line_spacing, paragraph_spacing)
    /\ wrap_width' = <<calculate_wrap_width(font_size', max_width)>>
    /\ pc' = "sized"
    /\ UNCHANGED <<text, lines, char_width, max_width, max_height, min_size,
                   max_size, line_spacing, paragraph_spacing, low, high,
                   best, iterations, fn, anchor, fixed, current_y, line_no,
                   drawn, pdfVars, batchVars, cliVars>>

\* a wrap_width given: font_size = max_font_size
RenderFixedSize ==
    /\ pc = "render"
    /\ wrap_width # <<>>
    /\ font_size' = max_size
    /\ pc' = "shrink"
    /\ UNCHANGED <<textVars, fn, anchor, fixed, current_y, line_no, drawn,
                   pdfVars, batchVars, cliVars>>

\* one round of 'while font_size >= min_font_size': break when the height
\* fits, else one size down
ShrinkStep ==
    /\ pc = "shrink"
    /\ font_size >= min_size
    /\ IF wrap_text_raises(text, wrap_width[1])
       THEN /\ pc' = "ValueError"
            /\ UNCHANGED <<lines, font_size>>
       ELSE /\ lines' = wrap_text(text, wrap_width[1])
            /\ IF calculate_text_height(lines', font_size,
                                        DEFAULT_LINE_SPACING,
                                        DEFAULT_PARAGRAPH_SPACING)
                     <= max_height
               THEN pc' = "sized" /\ font_size' = font_size
               ELSE pc' = "shrink" /\ font_size' = font_size - 1
    /\ UNCHANGED <<text, wrap_width, char_width, max_width, max_height,
                   min_size, max_size, line_spacing, paragraph_spacing, low,
                   high, best, iterations, fn, anchor, fixed, current_y,
                   line_no, drawn, pdfVars, batchVars, cliVars>>

\* the loop condition fails
ShrinkEnd ==
    /\ pc = "shrink"
    /\ font_size < min_size
    /\ pc' = "sized"
    /\ UNCHANGED <<textVars, renderVars, pdfVars, batchVars, cliVars>>

\* lines = self.wrap_text(text, wrap_width) and the y of the first line
RenderWrap ==
    /\ pc = "sized"
    /\ lines' = wrap_text(text, wrap_width[1])
    /\ current_y' = start_y(fn, anchor, lines', font_size)
    /\ line_no' = 0
    /\ pc' = "draw"
    /\ UNCHANGED <<text, wrap_width, char_width, max_width, max_height,
                   min_size, max_size, line_spacing, paragraph_spacing, low,
                   high, best, iterations, fn, anchor, fixed, font_size,
                   drawn, pdfVars, batchVars, cliVars>>

\* one round of the drawing loop
DrawLine ==
    /\ pc = "draw"
    /\ line_no < Len(lines)
    /\ LET line == lines[line_no + 1]
       IN  IF line = None
           THEN /\ current_y' = current_y + paragraph_spacing
                /\ UNCHANGED drawn
           ELSE /\ drawn' = Append(drawn,
                                   [x |-> line_x(fn, anchor, line, font_size),
                                    y |-> current_y, text |-> line,
                                    size |-> font_size])
                /\ current_y' = current_y
                      + advance(MeasureHeight(line, font_size), line_spacing)
    /\ line_no' = line_no + 1
    /\ UNCHANGED <<pc, textVars, fn, anchor, fixed, font_size,
                   pdfVars, batchVars, cliVars>>

\* the method returns
RenderReturn ==
    /\ pc = "draw"
    /\ line_no = Len(lines)
    /\ pc' = "rendered"
    /\ UNCHANGED <<textVars, renderVars, pdfVars, batchVars, cliVars>>

NextRender ==
    \/ RenderFindSize
    \/ RenderFixedSize
    \/ ShrinkStep
    \/ ShrinkEnd
    \/ RenderWrap
    \/ DrawLine
    \/ RenderReturn

SpecRender == InitRender /\ [][NextRender]_vars

-----------------------------------------------------------------------------
(* The PDF page compositor (src/pdf_generator.py): PDFGenerator scales the *)
(* cards to the page ("grid"), CutReadyPDFGenerator places cards of a      *)
(* fixed size ("cut_ready"), SingleCardPDFGenerator puts every side of     *)
(* every card on a page of its own ("single") and takes no GridConfig.     *)
(*                                                                         *)
(* Lengths are exact.  The code computes in floating point from points     *)
(* and millimetres; here a length is a whole number of units, a unit       *)
(* being 1/Scale(config) of half a millimetre, which makes every quotient  *)
(* the generators take (by cols, by rows, by the aspect ratio 210/298, by  *)
(* 2) a whole number.  A card name is a text; an image file is the pair    *)
(* of its sanitized name and its side.                                     *)

\* bounds of the grids and card lists tried
MaxRows == 2
MaxCols == 3
MaxCards == 3

Names == {<<"a">>, <<"B", " ">>}

\* the generators that lay cards out on a grid
GridModes == {"grid", "cut_ready"}

Orientations == {"portrait", "landscape", "diagonal"}

\* page margins tried, in half millimetres (20 points are about 7 mm); the
\* largest leaves no room on the page, GridConfig accepts it all the same
Margins == {0, 14, 220}

\* (gap_x, gap_y) tried, in half millimetres
Gaps == {<<0, 0>>, <<7, 5>>}

\* the sets of missing image files tried
AbsentSets ==
    { {},
      {<< <<"a">>, "back" >>},
      {<< <<"b", "_">>, "front" >>, << <<"b", "_">>, "back" >>} }

CardLists == UNION {[1..n -> Names] : n \in 0..MaxCards}

Scale(cfg) == 210 * 298 * cfg.rows * cfg.cols

\* a length given in half millimetres
Units(cfg, halfmm) == halfmm * Scale(cfg)

\* reportlab.lib.pagesizes.A4 = (210 mm, 297 mm)
A4 == <<420, 594>>

landscape(size) == <<size[2], size[1]>>

\* x / CARD_ASPECT_RATIO and x * CARD_ASPECT_RATIO
OverAspect(x) == (x \div 210) * 298
TimesAspect(x) == (x \div 298) * 210

\* CARD_WIDTH_MM = 63.5, CARD_HEIGHT_MM = 88.5, BLEED_MM = 1.5
CARD_WIDTH_MM == 127
CARD_HEIGHT_MM == 177
BLEED_MM == 3

\* list(range(a, b))
RECURSIVE Range(_, _)
Range(a, b) == IF a >= b THEN <<>> ELSE <<a>> \o Range(a + 1, b)

Reversed(s) == [i \in 1..Len(s) |-> s[Len(s) + 1 - i]]

\* (the orientation left unchecked)
GridConfigInvalidGridOnly(cfg) == cfg.rows < 1 \/ cfg.cols < 1

\* GridConfig.__post_init__ raises
GridConfigInvalid(cfg) ==
    \/ cfg.rows < 1 \/ cfg.cols < 1
    \/ cfg.orientation \notin {"portrait", "landscape"}

get_page_size(cfg) ==
    LET size == IF cfg.orientation = "landscape" THEN landscape(A4) ELSE A4
    IN  <<Units(cfg, size[1]), Units(cfg, size[2])>>

\* PDFGenerator._calculate_card_dimensions
calculate_card_dimensions(cfg, pw, ph) ==
    LET margin == Units(cfg, cfg.margin)
        gap_x  == Units(cfg, cfg.gap_x)
        gap_y  == Units(cfg, cfg.gap_y)
        avail_width  == pw - 2 * margin - (cfg.cols - 1) * gap_x
        avail_height == ph - 2 * margin - (cfg.rows - 1) * gap_y
        cw == avail_width \div cfg.cols
        ch == OverAspect(cw)
        total_height == ch * cfg.rows + (cfg.rows - 1) * gap_y
    IN  IF total_height > avail_height
        THEN <<TimesAspect(avail_height \div cfg.rows),
               avail_height \div cfg.rows>>
        ELSE <<cw, ch>>

\* (the grid laid out from the left margin)
offset_x_from_margin(cfg, pw, grid_width) == Units(cfg, cfg.margin)

\* the horizontal offset that centres the grid on the page
offset_x(cfg, pw, grid_width) == (pw - grid_width) \div 2

\* _calculate_positions, the same code in both classes: slot n (counted
\* from 0) is in row n \div cols and column n % cols
calculate_positions(cfg, pw, ph, cw, ch) ==
    LET gap_x == Units(cfg, cfg.gap_x)
        gap_y == Units(cfg, cfg.gap_y)
        grid_width  == cfg.cols * cw + (cfg.cols - 1) * gap_x
        grid_height == cfg.rows * ch + (cfg.rows - 1) * gap_y
        off_x == offset_x(cfg, pw, grid_width)
        off_y == (ph - grid_height) \div 2
    IN  [n \in 1..(cfg.rows * cfg.cols) |->
            LET row == (n - 1) \div cfg.cols
                col == (n - 1) % cfg.cols
            IN  <<off_x + col * (cw + gap_x), off_y + row * (ch + gap_y)>>]

\* PDFGenerator._calculate_back_order: what one row adds to back_order
grid_back_row_unmirrored(cfg, row) ==
    Range(row * cfg.cols, row * cfg.cols + cfg.cols)
grid_back_row(cfg, row) ==
    Reversed(Range(row * cfg.cols, row * cfg.cols + cfg.cols))

RECURSIVE grid_back_order_from(_, _)
grid_back_order_from(cfg, row) ==
    IF row >= cfg.rows THEN <<>>
    ELSE grid_back_row(cfg, row) \o grid_back_order_from(cfg, row + 1)

grid_calculate_back_order(cfg) == grid_back_order_from(cfg, 0)

\* CutReadyPDFGenerator._calculate_back_order
cut_ready_back_row(cfg, row) ==
    Reversed(Range(row * cfg.cols, row * cfg.cols + cfg.cols))

RECURSIVE cut_ready_back_order_from(_, _)
cut_ready_back_order_from(cfg, row) ==
    IF row >= cfg.rows THEN <<>>
    ELSE cut_ready_back_row(cfg, row) \o cut_ready_back_order_from(cfg, row + 1)

cut_ready_calculate_back_order(cfg) == cut_ready_back_order_from(cfg, 0)

\* (the margins left out of the test)
validate_grid_fits_no_margin(cfg, pw, ph, cw, ch) ==
    /\ cfg.cols * cw + (cfg.cols - 1) * Units(cfg, cfg.gap_x) <= pw
    /\ cfg.rows * ch + (cfg.rows - 1) * Units(cfg, cfg.gap_y) <= ph

\* CutReadyPDFGenerator._validate_grid_fits does not raise
validate_grid_fits(cfg, pw, ph, cw, ch) ==
    LET grid_width  == cfg.cols * cw + (cfg.cols - 1) * Units(cfg, cfg.gap_x)
        grid_height == cfg.rows * ch + (cfg.rows - 1) * Units(cfg, cfg.gap_y)
        total_width  == grid_width + 2 * Units(cfg, cfg.margin)
        total_height == grid_height + 2 * Units(cfg, cfg.margin)
    IN  ~(total_width > pw \/ total_height > ph)

\* _sanitize_filename: blanks become underscores, unsafe characters are
\* removed, letters are lowered
UnsafeChars == {"<", ">", ":", "\"", "/", "\\", "|", "?", "*", "'"}

Lower(c) ==
    CASE c = "A" -> "a"
      [] c = "B" -> "b"
      [] OTHER -> c

RECURSIVE sanitize_filename(_)
sanitize_filename(name) ==
    IF name = <<>> THEN <<>>
    ELSE LET c == Head(name)
             rest == sanitize_filename(Tail(name))
         IN  IF c = " " THEN <<"_">> \o rest
             ELSE IF c \in UnsafeChars THEN rest
             ELSE <<Lower(c)>> \o rest

\* image_dir / f"{safe_name}_{side}.png"
image_path(card_name, side) == <<sanitize_filename(card_name), side>>

\* (only the full groups)
make_groups_full_only(names, cards_per_page) ==
    [g \in 1..(Len(names) \div cards_per_page) |->
        [j \in 1..cards_per_page |-> names[(g - 1) * cards_per_page + j]]]

\* generate_pdf: the card names cut into groups of rows*cols, the last one
\* padded with None
make_groups(names, cards_per_page) ==
    [g \in 1..((Len(names) + cards_per_page - 1) \div cards_per_page) |->
        [j \in 1..cards_per_page |->
            IF (g - 1) * cards_per_page + j <= Len(names)
            THEN names[(g - 1) * cards_per_page + j]
            ELSE None]]

\* the slot whose position is used for the i-th entry of the order, which
\* names the card idx
slot_of_card(i, idx) == idx
slot_of(i, idx) == i

\* the image loop of _draw_page and of _draw_cut_ready_page, from the i-th
\* entry of the order on: the drawImage calls made
RECURSIVE draw_images_from(_, _, _, _)
draw_images_from(i, group, side, order) ==
    IF i >= Len(order) THEN <<>>
    ELSE LET idx == order[i + 1]
             card_name == group[idx + 1]
             pos == positions[slot_of(i, idx) + 1]
         IN  (IF card_name = None \/ image_path(card_name, side) \in absent
              THEN <<>>
              ELSE <<[op |-> "drawImage",
                      path |-> image_path(card_name, side),
                      x |-> pos[1], y |-> pos[2],
                      width |-> card_width, height |-> card_height]>>)
             \o draw_images_from(i + 1, group, side, order)

\* (a missing back image not reported)
RECURSIVE missing_from_front_only(_, _, _, _)
missing_from_front_only(i, group, side, order) ==
    IF i >= Len(order) THEN <<>>
    ELSE LET card_name == group[order[i + 1] + 1]
         IN  (IF /\ card_name # None
                 /\ side = "front"
                 /\ image_path(card_name, side) \in absent
              THEN <<image_path(card_name, side)>>
              ELSE <<>>)
             \o missing_from_front_only(i + 1, group, side, order)

\* the same loop: the paths it appends to missing_files
RECURSIVE missing_from(_, _, _, _)
missing_from(i, group, side, order) ==
    IF i >= Len(order) THEN <<>>
    ELSE LET card_name == group[order[i + 1] + 1]
         IN  (IF card_name # None /\ image_path(card_name, side) \in absent
              THEN <<image_path(card_name, side)>>
              ELSE <<>>)
             \o missing_from(i + 1, group, side, order)

\* (every entry of the order, empty slots too)
AllSlots(group, order) == 0..(Len(order) - 1)

\* the entries i of the order that name a card
FilledSlots(group, order) ==
    {i \in 0..(Len(order) - 1) : group[order[i + 1] + 1] # None}

\* _draw_cut_guidelines: one full-page line per collected coordinate
draw_cut_guidelines(group, order) ==
    LET filled == FilledSlots(group, order)
    IN  <<[op |-> "guidelines",
           verticals |-> {positions[i + 1][1] : i \in filled}
                         \cup {positions[i + 1][1] + card_width : i \in filled},
           horizontals |-> {positions[i + 1][2] : i \in filled}
                           \cup {positions[i + 1][2] + card_height : i \in filled}]>>

\* the rectangle _draw_bleed_background (fill) and _draw_card_borders
\* (stroke) put around slot i
bleed_rect(i, fill, stroke) ==
    [op |-> "rect", fill |-> fill, stroke |-> stroke,
     x |-> positions[i + 1][1] - bleed,
     y |-> positions[i + 1][2] - bleed,
     width |-> card_width + 2 * bleed,
     height |-> card_height + 2 * bleed]

RECURSIVE draw_rects_from(_, _, _, _, _)
draw_rects_from(i, group, order, fill, stroke) ==
    IF i >= Len(order) THEN <<>>
    ELSE (IF group[order[i + 1] + 1] # None
          THEN <<bleed_rect(i, fill, stroke)>>
          ELSE <<>>)
         \o draw_rects_from(i + 1, group, order, fill, stroke)

draw_bleed_background(group, order) == draw_rects_from(0, group, order, 1, 0)

draw_card_borders(group, order) == draw_rects_from(0, group, order, 0, 1)

\* (the order given for the back page not used)
draw_page_forward(group, side, order) ==
    draw_images_from(0, group, side, Range(0, Len(group)))

\* PDFGenerator._draw_page: the operations put on the page
draw_page(group, side, order) == draw_images_from(0, group, side, order)

\* (the bleed filled before the guidelines are drawn)
draw_cut_ready_page_bleed_first(group, side, order) ==
    draw_bleed_background(group, order)
    \o draw_cut_guidelines(group, order)
    \o draw_images_from(0, group, side, order)
    \o draw_card_borders(group, order)

\* CutReadyPDFGenerator._draw_cut_ready_page
draw_cut_ready_page(group, side, order) ==
    draw_cut_guidelines(group, order)
    \o draw_bleed_background(group, order)
    \o draw_images_from(0, group, side, order)
    \o draw_card_borders(group, order)

\* order when no back order is used: list(range(len(group)))
front_order(group) == Range(0, Len(group))

NoText ==
    /\ text = <<>>
    /\ wrap_width = <<>>
    /\ lines = <<>>
    /\ char_width = 0
    /\ max_width = 0 /\ max_height = 0
    /\ min_size = 0 /\ max_size = 0
    /\ line_spacing = 0 /\ paragraph_spacing = 0
    /\ low = 0 /\ high = 0 /\ best = 0
    /\ iterations = 0

InitPdf ==
    /\ pc = "config"
    /\ \/ /\ mode \in GridModes
          /\ \E r \in 0..MaxRows, c \in 0..MaxCols, o \in Orientations,
                m \in Margins, g \in Gaps :
                config = [rows |-> r, cols |-> c, orientation |-> o,
                          margin |-> m, gap_x |-> g[1], gap_y |-> g[2]]
       \/ /\ mode = "single"
          /\ config = <<>>
    /\ card_names \in CardLists
    /\ absent \in AbsentSets
    /\ page_width = 0 /\ page_height = 0
    /\ card_width = 0 /\ card_height = 0
    /\ bleed = 0
    /\ positions = <<>>
    /\ back_order = <<>>
    /\ groups = <<>>
    /\ group_no = 0
    /\ canvas = <<>>
    /\ missing_files = <<>>
    /\ result = <<>>
    /\ NoBatch
    /\ NoCli
    /\ NoRender
    /\ NoText

\* GridConfig(...): the dataclass validates itself
NewGridConfig ==
    /\ pc = "config"
    /\ mode \in GridModes
    /\ pc' = IF GridConfigInvalid(config) THEN "ValueError" ELSE "configured"
    /\ UNCHANGED <<renderVars, textVars, batchVars, cliVars, pdfVars>>

\* PDFGenerator(config)
NewPDFGenerator ==
    /\ pc = "configured"
    /\ mode = "grid"
    /\ LET size == get_page_size(config)
           card == calculate_card_dimensions(config, size[1], size[2])
       IN  /\ page_width' = size[1]
           /\ page_height' = size[2]
           /\ card_width' = card[1]
           /\ card_height' = card[2]
           /\ positions' = calculate_positions(config, size[1], size[2],
                                               card[1], card[2])
    /\ back_order' = grid_calculate_back_order(config)
    /\ pc' = "ready"
    /\ UNCHANGED <<renderVars, textVars, batchVars, cliVars,
                   config, mode, bleed, card_names, absent, groups,
                   group_no, canvas, missing_files, result>>

\* CutReadyPDFGenerator(config): the fit is validated last
NewCutReadyPDFGenerator ==
    /\ pc = "configured"
    /\ mode = "cut_ready"
    /\ LET size == get_page_size(config)
           cw == Units(config, CARD_WIDTH_MM)
           ch == Units(config, CARD_HEIGHT_MM)
       IN  /\ page_width' = size[1]
           /\ page_height' = size[2]
           /\ card_width' = cw
           /\ card_height' = ch
           /\ bleed' = Units(config, BLEED_MM)
           /\ positions' = calculate_positions(config, size[1], size[2], cw, ch)
           /\ pc' = IF validate_grid_fits(config, size[1], size[2], cw, ch)
                    THEN "ready" ELSE "ValueError"
    /\ back_order' = cut_ready_calculate_back_order(config)
    /\ UNCHANGED <<renderVars, textVars, batchVars, cliVars,
                   config, mode, card_names, absent, groups,
                   group_no, canvas, missing_files, result>>

\* the caller's list after the grouping loop
\* (the last slice is the list's own tail, padded in place)
names_padded_in_place(names, cards_per_page) ==
    IF Len(names) % cards_per_page = 0 THEN names
    ELSE names \o [k \in 1..(cards_per_page
                               - (Len(names) % cards_per_page)) |-> None]
\* group = card_names[i:i + cards_per_page] is a new list: group.extend
\* pads the copy
names_after_grouping(names, cards_per_page) == names

\* generate_pdf up to the page loop: the groups, the empty canvas
GeneratePdf ==
    /\ pc = "ready"
    /\ mode \in GridModes
    /\ groups' = make_groups(card_names, config.rows * config.cols)
    /\ card_names' = names_after_grouping(card_names,
                                          config.rows * config.cols)
    /\ group_no' = 0
    /\ canvas' = <<>>
    /\ missing_files' = <<>>
    /\ pc' = "pages"
    /\ UNCHANGED <<renderVars, textVars, batchVars, cliVars,
                   config, mode, page_width, page_height,
                   card_width, card_height, bleed, positions, back_order,
                   absent, result>>

\* PDFGenerator.generate_pdf, one round of the page loop: the front page,
\* showPage, the back page in back order, showPage
DrawGroup ==
    /\ pc = "pages"
    /\ mode = "grid"
    /\ group_no < Len(groups)
    /\ LET group == groups[group_no + 1]
       IN  /\ canvas' = canvas
                \o <<draw_page(group, "front", front_order(group))>>
                \o <<draw_page(group, "back", back_order)>>
           /\ missing_files' = missing_files
                \o missing_from(0, group, "front", front_order(group))
                \o missing_from(0, group, "back", back_order)
    /\ group_no' = group_no + 1
    /\ UNCHANGED <<renderVars, pc, textVars, batchVars, cliVars,
                   config, mode, page_width, page_height,
                   card_width, card_height, bleed, positions, back_order,
                   card_names, absent, groups, result>>

\* CutReadyPDFGenerator.generate_pdf, one round of the page loop: a group
\* of None only is skipped
DrawCutReadyGroup ==
    /\ pc = "pages"
    /\ mode = "cut_ready"
    /\ group_no < Len(groups)
    /\ LET group == groups[group_no + 1]
       IN  IF \A j \in 1..Len(group) : group[j] = None
           THEN UNCHANGED <<canvas, missing_files>>
           ELSE /\ canvas' = canvas
                     \o <<draw_cut_ready_page(group, "front", front_order(group))>>
                     \o <<draw_cut_ready_page(group, "back", back_order)>>
                /\ missing_files' = missing_files
                     \o missing_from(0, group, "front", front_order(group))
                     \o missing_from(0, group, "back", back_order)
    /\ group_no' = group_no + 1
    /\ UNCHANGED <<renderVars, pc, textVars, batchVars, cliVars,
                   config, mode, page_width, page_height,
                   card_width, card_height, bleed, positions, back_order,
                   card_names, absent, groups, result>>

\* c.save() and the returned statistics
ReturnStats ==
    /\ pc = "pages"
    /\ mode \in GridModes
    /\ group_no = Len(groups)
    /\ result' = [total_cards |-> Len(card_names),
                  total_pages |-> Len(groups) * 2,
                  missing_files |-> missing_files]
    /\ pc' = "done"
    /\ UNCHANGED <<renderVars, textVars, batchVars, cliVars,
                   config, mode, page_width, page_height,
                   card_width, card_height, bleed, positions, back_order,
                   card_names, absent, groups, group_no, canvas,
                   missing_files>>

\* CutReadyPDFGenerator.generate_pdf given a list in which the caller has
\* left slots empty: an entry of card_names may be None, which the page
\* loop and the drawing methods of this generator test for
SlotLists == UNION {[1..n -> Names \cup {None}] : n \in 0..MaxCards}

InitCutReadySlots ==
    /\ pc = "config"
    /\ mode = "cut_ready"
    /\ \E r \in 0..MaxRows, c \in 0..MaxCols, o \in Orientations,
          m \in Margins, g \in Gaps :
          config = [rows |-> r, cols |-> c, orientation |-> o,
                    margin |-> m, gap_x |-> g[1], gap_y |-> g[2]]
    /\ card_names \in SlotLists
    /\ absent \in AbsentSets
    /\ page_width = 0 /\ page_height = 0
    /\ card_width = 0 /\ card_height = 0
    /\ bleed = 0
    /\ positions = <<>>
    /\ back_order = <<>>
    /\ groups = <<>>
    /\ group_no = 0
    /\ canvas = <<>>
    /\ missing_files = <<>>
    /\ result = <<>>
    /\ NoBatch
    /\ NoCli
    /\ NoRender
    /\ NoText

NextCutReadySlots ==
    \/ NewGridConfig
    \/ NewCutReadyPDFGenerator
    \/ GeneratePdf
    \/ DrawCutReadyGroup
    \/ ReturnStats

SpecCutReadySlots == InitCutReadySlots /\ [][NextCutReadySlots]_vars

\* SingleCardPDFGenerator: A7_WIDTH, A7_HEIGHT (points, the unit of this
\* generator's lengths)
A7_WIDTH == 210
A7_HEIGHT == 298

\* SingleCardPDFGenerator()
NewSingleCardPDFGenerator ==
    /\ pc = "config"
    /\ mode = "single"
    /\ page_width' = A7_WIDTH
    /\ page_height' = A7_HEIGHT
    /\ pc' = "ready"
    /\ UNCHANGED <<renderVars, textVars, batchVars, cliVars,
                   config, mode, card_width, card_height, bleed,
                   positions, back_order, card_names, absent, groups,
                   group_no, canvas, missing_files, result>>

\* SingleCardPDFGenerator.generate_pdf up to the card loop
SingleGeneratePdf ==
    /\ pc = "ready"
    /\ mode = "single"
    /\ group_no' = 0
    /\ canvas' = <<>>
    /\ missing_files' = <<>>
    /\ pc' = "pages"
    /\ UNCHANGED <<renderVars, textVars, batchVars, cliVars,
                   config, mode, page_width, page_height,
                   card_width, card_height, bleed, positions, back_order,
                   card_names, absent, groups, result>>

\* one side of one card: the page drawn, the path reported missing
single_page(card_name, side) ==
    IF image_path(card_name, side) \in absent THEN <<>>
    ELSE <<[op |-> "drawImage", path |-> image_path(card_name, side),
            x |-> 0, y |-> 0, width |-> A7_WIDTH, height |-> A7_HEIGHT]>>

single_missing(card_name, side) ==
    IF image_path(card_name, side) \in absent
    THEN <<image_path(card_name, side)>> ELSE <<>>

\* SingleCardPDFGenerator.generate_pdf, one round of the card loop: the
\* front page, showPage, the back page, showPage (group_no counts the cards
\* gone through)
DrawSingleCard ==
    /\ pc = "pages"
    /\ mode = "single"
    /\ group_no < Len(card_names)
    /\ LET card_name == card_names[group_no + 1]
       IN  /\ canvas' = canvas \o <<single_page(card_name, "front")>>
                                \o <<single_page(card_name, "back")>>
           /\ missing_files' = missing_files
                \o single_missing(card_name, "front")
                \o single_missing(card_name, "back")
    /\ group_no' = group_no + 1
    /\ UNCHANGED <<renderVars, pc, textVars, batchVars, cliVars,
                   config, mode, page_width, page_height,
                   card_width, card_height, bleed, positions, back_order,
                   card_names, absent, groups, result>>

\* SingleCardPDFGenerator.generate_pdf: c.save() and the statistics
SingleReturnStats ==
    /\ pc = "pages"
    /\ mode = "single"
    /\ group_no = Len(card_names)
    /\ result' = [total_cards |-> Len(card_names),
                  total_pages |-> Len(card_names) * 2,
                  missing_files |-> missing_files]
    /\ pc' = "done"
    /\ UNCHANGED <<renderVars, textVars, batchVars, cliVars,
                   config, mode, page_width, page_height,
                   card_width, card_height, bleed, positions, back_order,
                   card_names, absent, groups, group_no, canvas,
                   missing_files>>

NextPdf ==
    \/ NewGridConfig
    \/ NewPDFGenerator
    \/ NewCutReadyPDFGenerator
    \/ GeneratePdf
    \/ DrawGroup
    \/ DrawCutReadyGroup
    \/ ReturnStats
    \/ NewSingleCardPDFGenerator
    \/ SingleGeneratePdf
    \/ DrawSingleCard
    \/ SingleReturnStats

SpecPdf == InitPdf /\ [][NextPdf]_vars

-----------------------------------------------------------------------------
(* The batch processor (src/batch_processor.py): process_spells generates  *)
(* the two images of every spell of a list and collects one                *)
(* ProcessingResult per spell name.  A spell is its name; what the card    *)
(* generator does with it (both images written, or an exception raised     *)
(* for the front or for the back) is the environment's choice.             *)

\* longest list of spells given to process_spells
MaxSpells == 3

\* the names of the spells of a data file
SpellNames == Names \cup {<<"a", "-">>}

SpellLists == UNION {[1..n -> SpellNames] : n \in 0..MaxSpells}

\* what generate_card_front and generate_card_back can do for a spell
Outcomes == {"ok", "front_raises", "back_raises"}

\* str(e) of the exception the card generator raised
ErrorText == <<"e", "r", "r">>

\* the files the card generator has written when _process_single_spell
\* returns
files_written(name, outcome) ==
    CASE outcome = "ok" -> {image_path(name, "front"), image_path(name, "back")}
      [] outcome = "back_raises" -> {image_path(name, "front")}
      [] outcome = "front_raises" -> {}

\* _process_single_spell: the ProcessingResult returned
process_single_spell(name, outcome) ==
    IF outcome = "ok"
    THEN [spell_name |-> name, success |-> TRUE,
          front_path |-> image_path(name, "front"),
          back_path |-> image_path(name, "back"),
          error |-> None]
    ELSE [spell_name |-> name, success |-> FALSE,
          front_path |-> None, back_path |-> None,
          error |-> ErrorText]

\* results[name] = result, on a dictionary
dict_set(d, key, value) ==
    [k \in (DOMAIN d) \cup {key} |-> IF k = key THEN value ELSE d[k]]

\* get_summary: len(results), the results with success set, the rest, the
\* error texts of the failed ones; success_rate is kept as the fraction
\* <<successful, total>>, <<0, 1>> for no result
get_summary(res) ==
    LET total == Cardinality(DOMAIN res)
        successful == Cardinality({k \in DOMAIN res : res[k].success})
    IN  [total |-> total,
         successful |-> successful,
         failed |-> total - successful,
         success_rate |-> IF total > 0 THEN <<successful, total>>
                          ELSE <<0, 1>>,
         errors |-> [k \in {n \in DOMAIN res : ~res[n].success} |->
                        res[k].error]]

InitBatch ==
    /\ pc = "batch"
    /\ spells \in SpellLists
    /\ spell_no = 0
    /\ results = <<>>
    /\ output_files = {}
    /\ handled = <<>>
    /\ NoText
    /\ NoPdf
    /\ NoCli
    /\ NoRender

\* process_spells, one round of the loop (the progress callback, which
\* touches nothing of the processor, is left out; the file names are those
\* of image_path: _sanitize_filename is the same code in both modules)
ProcessSpell ==
    /\ pc = "batch"
    /\ spell_no < Len(spells)
    /\ \E outcome \in Outcomes :
          LET name == spells[spell_no + 1]
          IN  /\ results' = dict_set(results, name,
                                     process_single_spell(name, outcome))
              /\ output_files' = output_files \cup files_written(name, outcome)
              /\ handled' = Append(handled,
                                   [name |-> name, outcome |-> outcome])
    /\ spell_no' = spell_no + 1
    /\ UNCHANGED <<renderVars, pc, spells, textVars, pdfVars, cliVars>>

\* process_spells returns results
ProcessReturn ==
    /\ pc = "batch"
    /\ spell_no = Len(spells)
    /\ pc' = "batch_done"
    /\ UNCHANGED <<renderVars, textVars, pdfVars, batchVars, cliVars>>

NextBatch == ProcessSpell \/ ProcessReturn

SpecBatch == InitBatch /\ [][NextBatch]_vars

-----------------------------------------------------------------------------
\* The command line run, cli.py: SpellCardCLI._execute

\* --no-pdf and --keep-images as given on the command line
ArgSets == [no_pdf : BOOLEAN, keep_images : BOOLEAN]

\* str.isalnum for the characters of the names
AlnumChars == {"a", "b", "A", "B"}

\* the file name _cleanup_png_files derives from a spell name: lowered,
\* apostrophes removed, blanks to underscores, then every character that
\* is neither alphanumeric nor an underscore dropped
RECURSIVE cleanup_sanitize(_)
cleanup_sanitize(name) ==
    IF name = <<>> THEN <<>>
    ELSE LET c == Lower(Head(name))
             rest == cleanup_sanitize(Tail(name))
         IN  IF c = "'" THEN rest
             ELSE IF c = " " THEN <<"_">> \o rest
             ELSE IF c \in AlnumChars \/ c = "_" THEN <<c>> \o rest
             ELSE rest

\* output_dir / f"{sanitized_name}_{side}.png"
cleanup_path(name, side) == <<cleanup_sanitize(name), side>>

\* the files _cleanup_png_files looks for, in the order of its two loops
RECURSIVE cleanup_targets(_)
cleanup_targets(names) ==
    IF names = <<>> THEN <<>>
    ELSE <<cleanup_path(Head(names), "front"),
           cleanup_path(Head(names), "back")>>
         \o cleanup_targets(Tail(names))

\* the loops of _cleanup_png_files over the files paths, present being the
\* files of the directory and failing those os.remove raises for: the
\* files removed, and whether the exception was raised
RECURSIVE cleanup_from(_, _, _, _)
cleanup_from(paths, present, failing, gone) ==
    IF paths = <<>> THEN [deleted |-> gone, raised |-> FALSE]
    ELSE LET file_path == Head(paths)
         IN  IF file_path \in present \ gone
             THEN IF file_path \in failing
                  THEN [deleted |-> gone, raised |-> TRUE]
                  ELSE cleanup_from(Tail(paths), present, failing,
                                    gone \cup {file_path})
             ELSE cleanup_from(Tail(paths), present, failing, gone)

cleanup_png_files(names, present, failing) ==
    cleanup_from(cleanup_targets(names), present, failing, {})

\* where _execute goes once _generate_pdf has returned
\* (cleanup whatever --keep-images says)
after_pdf_always(a) == "cleanup"
after_pdf(a) == IF ~a.keep_images THEN "cleanup" ELSE "final"

\* the files os.remove can fail for: none, or one of those written
FailingSets == {{}} \cup {{f} : f \in output_files}

InitCli ==
    /\ pc = "cli"
    /\ args \in ArgSets
    /\ spells \in SpellLists
    /\ spell_no = 0
    /\ results = <<>>
    /\ output_files = {}
    /\ handled = <<>>
    /\ pdf_path = <<>>
    /\ deleted = {}
    /\ messages = <<>>
    /\ exit_code = <<>>
    /\ NoText
    /\ NoPdf
    /\ NoRender

\* the CSV file and the assets are checked and loaded: _execute returns 1
\* if either fails, and goes on to process_spells otherwise
CliLoad ==
    /\ pc = "cli"
    /\ \E loaded \in BOOLEAN :
          IF loaded
          THEN /\ pc' = "batch"
               /\ UNCHANGED <<messages, exit_code>>
          ELSE /\ pc' = "exit"
               /\ messages' = Append(messages, "Error loading")
               /\ exit_code' = <<1>>
    /\ UNCHANGED <<renderVars,
                   args, pdf_path, deleted, textVars, pdfVars, batchVars>>

\* if not args.no_pdf: _generate_pdf returns the path or raises
CliGeneratePdf ==
    /\ pc = "batch_done"
    /\ args # <<>>
    /\ ~args.no_pdf
    /\ \E raises \in BOOLEAN :
          IF raises
          THEN /\ pc' = "exit"
               /\ messages' = Append(messages, "Error generating PDF")
               /\ exit_code' = <<1>>
               /\ UNCHANGED pdf_path
          ELSE /\ pc' = after_pdf(args)
               /\ pdf_path' = <<"cards.pdf">>
               /\ UNCHANGED <<messages, exit_code>>
    /\ UNCHANGED <<renderVars, args, deleted, textVars, pdfVars, batchVars>>

\* --no-pdf: nothing is generated
CliNoPdf ==
    /\ pc = "batch_done"
    /\ args # <<>>
    /\ args.no_pdf
    /\ pc' = "final"
    /\ UNCHANGED <<renderVars, textVars, pdfVars, batchVars, cliVars>>

\* _cleanup_png_files(args.output, spells); an exception it raises is
\* reported as a warning and nothing else
CliCleanup ==
    /\ pc = "cleanup"
    /\ \E failing \in FailingSets :
          LET done == cleanup_png_files(spells, output_files, failing)
          IN  /\ deleted' = done.deleted
              /\ messages' = IF done.raised
                             THEN Append(messages, "Cleanup warning")
                             ELSE messages
    /\ pc' = "final"
    /\ UNCHANGED <<renderVars,
                   args, pdf_path, exit_code, textVars, pdfVars, batchVars>>

\* return 0
CliReturn ==
    /\ pc = "final"
    /\ pc' = "exit"
    /\ exit_code' = <<0>>
    /\ UNCHANGED <<renderVars,
                   args, pdf_path, deleted, messages, textVars, pdfVars,
                   batchVars>>

NextCli ==
    \/ CliLoad
    \/ ProcessSpell
    \/ ProcessReturn
    \/ CliGeneratePdf
    \/ CliNoPdf
    \/ CliCleanup
    \/ CliReturn

SpecCli == InitCli /\ [][NextCli]_vars

-----------------------------------------------------------------------------
(* Claims about the solver, checked under SpecSolver. *)

SizeRange == min_size..max_size

FittingSizes == {s \in SizeRange : Fits(s)}

\* what a linear scan over the range returns
LinearScan ==
    IF FittingSizes = {} THEN min_size
    ELSE CHOOSE s \in FittingSizes : \A u \in FittingSizes : u <= s

\* C1: the size find_optimal_font_size returns is the one a linear scan
\* finds: the largest size of [min_size, max_size] at which the text fits,
\* or min_size when it fits at none.
C1_SolverOptimal == pc = "done" => best = LinearScan

\* C2: the fit predicate is monotone: when the text fits at a size a of the
\* range, it fits at every smaller size b of the range.
C2_FitMonotone ==
    \A a \in SizeRange : \A b \in SizeRange : (b < a /\ Fits(a)) => Fits(b)

\* C3: the returned size lies in [min_size, max_size], and the text fits the
\* box at it or it is min_size.
C3_FitResult ==
    pc = "done" => /\ best \in SizeRange
                   /\ Fits(best) \/ best = min_size

C3_Witness == pc = "done" /\ best > min_size /\ best < max_size /\ Fits(best)

\* C4: every call terminates and returns a size: a round of the loop
\* strictly shrinks the interval [low, high], so that the rounds run plus the
\* sizes left never exceed the number of sizes of the range; the loop is left
\* exactly when low > high, returning best; no call raises; and when the text
\* fits at no size of the range the result is min_size.
C4_Terminates ==
    /\ [][pc = "loop" =>
            \/ pc' = "done" /\ low > high /\ best' = best
            \/ /\ pc' = "loop" /\ low <= high
               /\ iterations' = iterations + 1
               /\ high' - low' < high - low]_vars
    /\ [](/\ high - low >= -1
          /\ iterations + (high - low + 1) <= max_size - min_size + 1)
    /\ [](pc \in {"loop", "done"})
    /\ [](pc = "done" /\ FittingSizes = {} => best = min_size)

C4_Witness ==
    pc = "done" /\ FittingSizes = {} /\ max_size > min_size /\ best = min_size

-----------------------------------------------------------------------------
(* Claims about wrap_text, checked under SpecWrap.  The input is read      *)
(* here by character positions, not through the operators above.           *)

NewlinePositions(t) == {i \in 1..Len(t) : t[i] = "\n"}

NthNewline(t, k) ==
    CHOOSE i \in NewlinePositions(t) :
        Cardinality({j \in NewlinePositions(t) : j <= i}) = k

\* the lines of the input: each ends at a newline, the last one at the end
\* of the text when characters follow the last newline
NumInputLines(t) ==
    Cardinality(NewlinePositions(t))
        + (IF Len(t) > 0 /\ t[Len(t)] # "\n" THEN 1 ELSE 0)

InputLine(t, k) ==
    SubSeq(t,
           IF k = 1 THEN 1 ELSE NthNewline(t, k - 1) + 1,
           IF k <= Cardinality(NewlinePositions(t))
           THEN NthNewline(t, k) - 1 ELSE Len(t))

InputLines(t) == [k \in 1..NumInputLines(t) |-> InputLine(t, k)]

\* the words of a line: its maximal runs of non-blank characters
WordStarts(p) == {i \in 1..Len(p) : p[i] # " " /\ (i = 1 \/ p[i - 1] = " ")}

WordAt(p, i) ==
    SubSeq(p, i, CHOOSE j \in i..Len(p) :
                    /\ \A m \in i..j : p[m] # " "
                    /\ (j = Len(p) \/ p[j + 1] = " "))

RECURSIVE WordsFrom(_, _)
WordsFrom(p, i) ==
    IF i > Len(p) THEN <<>>
    ELSE IF i \in WordStarts(p) THEN <<WordAt(p, i)>> \o WordsFrom(p, i + 1)
    ELSE WordsFrom(p, i + 1)

Words(p) == WordsFrom(p, 1)

RECURSIVE WordsOfBlock(_)
WordsOfBlock(ls) ==
    IF ls = <<>> THEN <<>>
    ELSE (IF Head(ls) = None THEN <<>> ELSE Words(Head(ls)))
         \o WordsOfBlock(Tail(ls))

NonBlank(p) == SelectSeq(p, LAMBDA c : c # " ")

RECURSIVE JoinSpaces(_)
JoinSpaces(ls) ==
    IF ls = <<>> THEN <<>>
    ELSE IF Len(ls) = 1 THEN Head(ls)
    ELSE Head(ls) \o <<" ">> \o JoinSpaces(Tail(ls))

Wrapped == pc = "wrapped" /\ wrap_width[1] >= 1

LinesWithinBudget ==
    \A i \in 1..Len(lines) : lines[i] = None \/ Len(lines[i]) <= wrap_width[1]

\* the words of the output are those of the input, in order
NoWordSplit == WordsOfBlock(lines) = WordsOfBlock(InputLines(text))

RewrapStable(p) ==
    textwrap_wrap(JoinSpaces(textwrap_wrap(p, wrap_width[1])), wrap_width[1])
        = textwrap_wrap(p, wrap_width[1])

NonBlankInputLines == {k \in 1..NumInputLines(text) : ~IsBlank(InputLine(text, k))}

\* C5, as claimed: every line has at most W characters, no word of the
\* input is split across two lines, and wrapping a paragraph's lines, joined
\* by single spaces, again at W gives the same lines.
C5_AsClaimed ==
    Wrapped => /\ LinesWithinBudget
               /\ NoWordSplit
               /\ \A k \in NonBlankInputLines : RewrapStable(InputLine(text, k))

\* the output words ow are the input words iw, except that a word longer
\* than w may come in pieces
RECURSIVE ShortWordsWhole(_, _, _)
ShortWordsWhole(iw, ow, w) ==
    IF iw = <<>> THEN ow = <<>>
    ELSE IF Len(Head(iw)) <= w
         THEN ow # <<>> /\ Head(ow) = Head(iw)
              /\ ShortWordsWhole(Tail(iw), Tail(ow), w)
         ELSE \E k \in 1..Len(ow) :
                 /\ Flatten(SubSeq(ow, 1, k)) = Head(iw)
                 /\ ShortWordsWhole(Tail(iw), SubSeq(ow, k + 1, Len(ow)), w)

SingleSpaced(p) == \A i \in 1..(Len(p) - 1) : ~(p[i] = " " /\ p[i + 1] = " ")

WordsWithin(p, w) == \A i \in 1..Len(Words(p)) : Len(Words(p)[i]) <= w

\* C5, amended: every line has at most W characters; no word of at most W
\* characters is split across two lines; and wrapping a paragraph's lines,
\* joined by single spaces, again at W gives the same lines when every word
\* of the paragraph has at most W characters and no two blanks are adjacent.
C5_WrapStable ==
    Wrapped =>
        /\ LinesWithinBudget
        /\ ShortWordsWhole(WordsOfBlock(InputLines(text)), WordsOfBlock(lines),
                           wrap_width[1])
        /\ \A k \in NonBlankInputLines :
              (SingleSpaced(InputLine(text, k))
                  /\ WordsWithin(InputLine(text, k), wrap_width[1]))
              => RewrapStable(InputLine(text, k))

C5_Witness ==
    /\ Wrapped /\ wrap_width[1] >= 2
    /\ NumInputLines(text) = 1
    /\ SingleSpaced(text) /\ WordsWithin(text, wrap_width[1])
    /\ Len(lines) = 2 /\ Len(Words(text)) = 3

LongWords(t, w) ==
    {i \in 1..Len(WordsOfBlock(InputLines(t))) :
        Len(WordsOfBlock(InputLines(t))[i]) > w}

\* C6, as claimed: a word longer than W is emitted whole on one line.
C6_AsClaimed ==
    Wrapped =>
        \A i \in LongWords(text, wrap_width[1]) :
            \E n \in 1..Len(lines) : lines[n] = WordsOfBlock(InputLines(text))[i]

\* the output words ow are the input words iw, except that each word longer
\* than w comes as two or more pieces of at most w characters
RECURSIVE LongWordsCut(_, _, _)
LongWordsCut(iw, ow, w) ==
    IF iw = <<>> THEN ow = <<>>
    ELSE IF Len(Head(iw)) <= w
         THEN ow # <<>> /\ LongWordsCut(Tail(iw), Tail(ow), w)
         ELSE \E k \in 2..Len(ow) :
                 /\ Flatten(SubSeq(ow, 1, k)) = Head(iw)
                 /\ \A m \in 1..k : Len(ow[m]) <= w
                 /\ LongWordsCut(Tail(iw), SubSeq(ow, k + 1, Len(ow)), w)

\* C6, amended: a word longer than W is not emitted whole: it is cut into
\* two or more consecutive pieces of at most W characters each, and no
\* character (such as a hyphen) is added or lost.
C6_LongWordCut ==
    Wrapped =>
        /\ LongWordsCut(WordsOfBlock(InputLines(text)), WordsOfBlock(lines),
                        wrap_width[1])
        /\ NonBlank(Flatten(SelectSeq(lines, LAMBDA l : l # None)))
              = NonBlank(SelectSeq(text, LAMBDA c : c # "\n"))

C6_Witness ==
    /\ Wrapped /\ wrap_width[1] >= 2
    /\ Len(Words(text)) = 2 /\ NumInputLines(text) = 1
    /\ Len(Words(text)[1]) = 1 /\ Len(Words(text)[2]) > wrap_width[1]
    /\ Len(lines) >= 2

NumMarkers(ls) == Cardinality({i \in 1..Len(ls) : ls[i] = None})

BlankInputLines(t) == {k \in 1..NumInputLines(t) : IsBlank(InputLine(t, k))}

\* the block ls is made of one group of entries per paragraph, in order: the
\* marker alone for a blank paragraph, and for another paragraph one or more
\* text lines that hold its non-blank characters
RECURSIVE ParagraphsKept(_, _)
ParagraphsKept(paras, ls) ==
    IF paras = <<>> THEN ls = <<>>
    ELSE IF IsBlank(Head(paras))
         THEN ls # <<>> /\ Head(ls) = None /\ ParagraphsKept(Tail(paras), Tail(ls))
         ELSE \E k \in 1..Len(ls) :
                 /\ \A m \in 1..k : ls[m] # None
                 /\ NonBlank(Flatten(SubSeq(ls, 1, k))) = NonBlank(Head(paras))
                 /\ ParagraphsKept(Tail(paras), SubSeq(ls, k + 1, Len(ls)))

\* C7: the block holds as many paragraph-break markers as the input has
\* blank (empty or blank-only) lines, a line being ended by a newline or by
\* the end of the text; each marker stands where its blank line stood among
\* the paragraphs, and the lines of a paragraph hold that paragraph's
\* characters only, paragraphs in input order.
C7_ParagraphsPreserved ==
    pc = "wrapped" =>
        /\ NumMarkers(lines) = Cardinality(BlankInputLines(text))
        /\ ParagraphsKept(InputLines(text), lines)

C7_Witness ==
    /\ Wrapped
    /\ Len(lines) = 4 /\ lines[1] # None /\ lines[2] = None
    /\ lines[3] # None /\ lines[4] # None
    /\ NumInputLines(text) = 3

\* C8: a budget below 1 is clamped to 1: wrap_text(text, n) with n < 1
\* returns the lines of wrap_text(text, 1) and does not raise; and
\* calculate_wrap_width never returns a value below 1.
C8_BudgetClamped ==
    /\ pc = "budget" => wrap_width[1] >= 1
    /\ (pc \in {"wrapped", "ValueError"} /\ wrap_width[1] < 1)
          => pc = "wrapped" /\ lines = wrap_text(text, 1)

-----------------------------------------------------------------------------
(* Claims about the page compositor, checked under SpecPdf. *)

\* a generator with a grid exists: its constructor returned
Constructed == mode \in GridModes /\ pc \in {"ready", "pages", "done"}

NumSlots == config.rows * config.cols

\* back_order[i], counted from 0 as in the code
BackOrderAt(i) == back_order[i + 1]

\* C9: for every grid with rows >= 1 and cols >= 1, in both generators,
\* back_order is a permutation of 0..rows*cols-1 that sends slot
\* r*cols + c to r*cols + (cols-1-c); applying it twice is the identity
\* and no index leaves its row.
C9_BackOrderInvolution ==
    Constructed =>
        /\ config.rows >= 1 /\ config.cols >= 1
        /\ Len(back_order) = NumSlots
        /\ {BackOrderAt(i) : i \in 0..(NumSlots - 1)} = 0..(NumSlots - 1)
        /\ \A r \in 0..(config.rows - 1), c \in 0..(config.cols - 1) :
              BackOrderAt(r * config.cols + c)
                 = r * config.cols + (config.cols - 1 - c)
        /\ \A i \in 0..(NumSlots - 1) :
              /\ BackOrderAt(BackOrderAt(i)) = i
              /\ BackOrderAt(i) \div config.cols = i \div config.cols

\* a constructed cut-ready generator whose grid has several rows of
\* several columns, so that mirroring a row differs from reversing the page
C9_Witness ==
    /\ pc = "ready"
    /\ mode = "cut_ready"
    /\ config.rows >= 2 /\ config.cols >= 2
    /\ BackOrderAt(0) = config.cols - 1

\* the pages of the g-th group gone through (g counted from 1)
FrontPage(g) == canvas[2 * g - 1]
BackPage(g) == canvas[2 * g]

\* the drawImage calls of a page that draw at slot i
ImagesAt(page, i) ==
    {n \in 1..Len(page) :
        /\ page[n].op = "drawImage"
        /\ page[n].x = positions[i + 1][1]
        /\ page[n].y = positions[i + 1][2]}

\* the page shows at slot i the image of the card at logical index k of
\* the group, at card size, and nothing else; or nothing when that image
\* file is missing
ShowsCardAt(page, i, group, k, side) ==
    IF image_path(group[k + 1], side) \in absent
    THEN ImagesAt(page, i) = {}
    ELSE /\ Cardinality(ImagesAt(page, i)) = 1
         /\ \A n \in ImagesAt(page, i) :
               /\ page[n].path = image_path(group[k + 1], side)
               /\ page[n].width = card_width
               /\ page[n].height = card_height

\* the slot of the back page that holds the card at logical index k
BackSlot(k) == CHOOSE i \in 0..(NumSlots - 1) : BackOrderAt(i) = k

\* slot i is the horizontal mirror of slot k
Mirrored(i, k) ==
    /\ positions[i + 1][2] = positions[k + 1][2]
    /\ positions[i + 1][1] + card_width = page_width - positions[k + 1][1]

\* C10: in grid and cut-ready mode, for every group and every card at
\* logical index k, the front is drawn at slot k, the back at the slot i
\* with back_order[i] = k, and slot i is the horizontal mirror of slot k:
\* y_back = y_front and x_back + card_width = page_width - x_front.
C10_DoubleSidedAligned ==
    (mode \in GridModes /\ pc \in {"pages", "done"}) =>
        \A g \in 1..group_no :
            /\ Len(canvas) >= 2 * g
            /\ \A k \in 0..(NumSlots - 1) :
                  groups[g][k + 1] # None =>
                      /\ \E i \in 0..(NumSlots - 1) : BackOrderAt(i) = k
                      /\ ShowsCardAt(FrontPage(g), k, groups[g], k, "front")
                      /\ ShowsCardAt(BackPage(g), BackSlot(k), groups[g], k,
                                     "back")
                      /\ Mirrored(BackSlot(k), k)

\* a finished run in which a card was drawn on both sides, its back in
\* another slot than its front, next to a card with another name
C10_Witness ==
    /\ pc = "done"
    /\ mode \in GridModes
    /\ group_no >= 1
    /\ \E k \in 0..(NumSlots - 1) :
          /\ groups[1][k + 1] # None
          /\ BackSlot(k) # k
          /\ groups[1][BackSlot(k) + 1] # None
          /\ groups[1][BackSlot(k) + 1] # groups[1][k + 1]
          /\ ImagesAt(FrontPage(1), k) # {}
          /\ ImagesAt(BackPage(1), BackSlot(k)) # {}

\* slot (r, c) of the grid, rows and columns counted from 0
SlotX(r, c) == positions[r * config.cols + c + 1][1]
SlotY(r, c) == positions[r * config.cols + c + 1][2]

\* C11: for every valid GridConfig, PDFGenerator has rows*cols positions,
\* row-major from the bottom row and the leftmost column: x grows strictly
\* with the column inside a row, y grows strictly with the row, and the
\* slots of one row share their y.
C11_GridOrdering ==
    (Constructed /\ mode = "grid") =>
        /\ Len(positions) = NumSlots
        /\ \A r \in 0..(config.rows - 1) :
              /\ \A c \in 0..(config.cols - 1) : SlotY(r, c) = SlotY(r, 0)
              /\ \A c \in 0..(config.cols - 2) : SlotX(r, c) < SlotX(r, c + 1)
              /\ r < config.rows - 1 => SlotY(r, 0) < SlotY(r + 1, 0)

\* the space the grid and the margins take on the page
TotalWidth ==
    config.cols * card_width
    + (config.cols - 1) * Units(config, config.gap_x)
    + 2 * Units(config, config.margin)
TotalHeight ==
    config.rows * card_height
    + (config.rows - 1) * Units(config, config.gap_y)
    + 2 * Units(config, config.margin)

\* C12: for rows, cols >= 1 and margin and gaps >= 0, the cards PDFGenerator
\* computes keep the grid and the margins on the page in both directions,
\* and card_width : card_height is 210 : 298, whichever of the two
\* computations (from the width, from the height) gave the size.
C12_ScaleToFit ==
    (/\ Constructed /\ mode = "grid"
     /\ config.margin >= 0 /\ config.gap_x >= 0 /\ config.gap_y >= 0) =>
        /\ TotalWidth <= page_width
        /\ TotalHeight <= page_height
        /\ card_width % 210 = 0
        /\ (card_width \div 210) * 298 = card_height


\* ceil(n / c)
CeilDiv(n, c) == CHOOSE q \in 0..n : q * c >= n /\ (q - 1) * c < n

\* the sides of the images drawn on a page
SidesOn(page) ==
    {page[n].path[2] : n \in {m \in 1..Len(page) : page[m].op = "drawImage"}}

\* C13: in grid and cut-ready mode, N cards on a grid of capacity
\* C = rows*cols give ceil(N/C) groups, the last one padded with empty
\* slots; every group emits its front page and right after it its back
\* page, and generate_pdf returns total_pages = 2*ceil(N/C) and
\* total_cards = N; no card, no page.
C13_PageCount ==
    (mode \in GridModes /\ pc \in {"pages", "done"}) =>
        LET N == Len(card_names)
            pairs == CeilDiv(N, NumSlots)
        IN  /\ Len(groups) = pairs
            /\ \A g \in 1..pairs :
                  /\ Len(groups[g]) = NumSlots
                  /\ \A j \in 1..NumSlots :
                        groups[g][j] =
                           IF (g - 1) * NumSlots + j <= N
                           THEN card_names[(g - 1) * NumSlots + j]
                           ELSE None
            /\ Len(canvas) = 2 * group_no
            /\ \A g \in 1..group_no :
                  /\ SidesOn(FrontPage(g)) \subseteq {"front"}
                  /\ SidesOn(BackPage(g)) \subseteq {"back"}
            /\ pc = "done" =>
                  /\ Len(canvas) = 2 * pairs
                  /\ result.total_pages = 2 * pairs
                  /\ result.total_cards = N

\* a finished run whose cards do not fill their last page
C13_Witness ==
    /\ pc = "done"
    /\ mode = "cut_ready"
    /\ Len(card_names) = 3
    /\ NumSlots = 2
    /\ Len(canvas) = 4
    /\ groups[2][2] = None

\* the page of the configured orientation, in half millimetres
PageHalfMm == IF config.orientation = "landscape" THEN landscape(A4) ELSE A4

\* the fixed-size grid alone, and with its margins, in half millimetres
FixedGridWidth ==
    config.cols * CARD_WIDTH_MM + (config.cols - 1) * config.gap_x
FixedGridHeight ==
    config.rows * CARD_HEIGHT_MM + (config.rows - 1) * config.gap_y
FixedGridTooLarge ==
    \/ FixedGridWidth + 2 * config.margin > PageHalfMm[1]
    \/ FixedGridHeight + 2 * config.margin > PageHalfMm[2]

\* C14: for a valid GridConfig, constructing CutReadyPDFGenerator raises
\* ValueError exactly when the grid of 63.5 mm x 88.5 mm cards with its
\* gaps and margins is wider or higher than the page; the error comes
\* before any canvas or drawing, and an accepted grid keeps the fixed card
\* size.
C14_CutReadyFit ==
    (/\ mode = "cut_ready"
     /\ pc \notin {"config", "configured"}
     /\ ~GridConfigInvalid(config)) =>
        /\ pc = "ValueError" <=> FixedGridTooLarge
        /\ pc = "ValueError" =>
              /\ canvas = <<>> /\ groups = <<>>
              /\ missing_files = <<>> /\ result = <<>>
        /\ pc # "ValueError" =>
              /\ card_width = Units(config, CARD_WIDTH_MM)
              /\ card_height = Units(config, CARD_HEIGHT_MM)

\* a grid refused for its margins only: the cards and gaps alone would fit
C14_Witness ==
    /\ mode = "cut_ready"
    /\ pc = "ValueError"
    /\ ~GridConfigInvalid(config)
    /\ config.margin = 14
    /\ FixedGridWidth <= PageHalfMm[1]
    /\ FixedGridHeight <= PageHalfMm[2]

\* C15: a GridConfig with rows < 1, cols < 1 or an orientation other than
\* portrait and landscape raises ValueError when it is constructed, so
\* that no generator, canvas or page exists for it; every GridConfig that
\* was constructed has rows >= 1, cols >= 1 and one of the two orientations.
C15_ConfigErrorsFirst ==
    mode \in GridModes =>
        /\ (/\ pc # "config"
            /\ \/ config.rows < 1
               \/ config.cols < 1
               \/ ~(config.orientation = "portrait"
                    \/ config.orientation = "landscape")) =>
              /\ pc = "ValueError"
              /\ page_width = 0 /\ page_height = 0
              /\ card_width = 0 /\ card_height = 0
              /\ positions = <<>> /\ back_order = <<>>
              /\ groups = <<>> /\ canvas = <<>>
              /\ missing_files = <<>> /\ result = <<>>
        /\ pc \in {"configured", "ready", "pages", "done"} =>
              /\ config.rows >= 1
              /\ config.cols >= 1
              /\ config.orientation \in {"portrait", "landscape"}

\* a grid with rows and columns refused for its orientation
C15_Witness ==
    /\ mode \in GridModes
    /\ pc = "ValueError"
    /\ config.rows >= 1 /\ config.cols >= 1
    /\ config.orientation = "diagonal"

\* three cards on a grid of two rows and two columns, all pages emitted
ScenarioC ==
    /\ mode \in GridModes
    /\ pc = "done"
    /\ config.rows = 2 /\ config.cols = 2
    /\ Len(card_names) = 3

\* C16 as claimed: one front and one back page; on the back page slot 0
\* holds the card of forward index 1 and slot 3 is blank.
C16_AsClaimed ==
    ScenarioC =>
        /\ Len(canvas) = 2
        /\ ShowsCardAt(BackPage(1), 0, groups[1], 1, "back")
        /\ ImagesAt(BackPage(1), 3) = {}

\* C16: three cards on a 2x2 grid give one front and one back page; on the
\* back page slot 0 holds the card of forward index 1, slot 1 the card of
\* index 0, slot 3 the card of index 2, and slot 2 is the blank one: it
\* mirrors the empty slot 3 of the front page.
C16_ScenarioC ==
    ScenarioC =>
        /\ Len(canvas) = 2
        /\ ShowsCardAt(BackPage(1), 0, groups[1], 1, "back")
        /\ ShowsCardAt(BackPage(1), 1, groups[1], 0, "back")
        /\ ShowsCardAt(BackPage(1), 3, groups[1], 2, "back")
        /\ ImagesAt(BackPage(1), 2) = {}
        /\ ImagesAt(FrontPage(1), 3) = {}

\* the scenario with every image present and two different neighbours
C16_Witness ==
    /\ ScenarioC
    /\ mode = "grid"
    /\ absent = {}
    /\ card_names[1] # card_names[2]
    /\ ImagesAt(BackPage(1), 3) # {}

Sides == {"front", "back"}

\* the (card of the list, side) pairs whose image file is the absent file p
CardSidesOf(p) ==
    {cs \in (1..Len(card_names)) \X Sides :
        image_path(card_names[cs[1]], cs[2]) = p}

\* how often p is listed in missing_files
TimesReported(p) ==
    Cardinality({n \in 1..Len(missing_files) : missing_files[n] = p})

\* the pages a card list gives when every image exists
ExpectedPages ==
    IF mode = "single" THEN 2 * Len(card_names)
    ELSE 2 * CeilDiv(Len(card_names), NumSlots)

\* C17: in all three modes and for every set of absent image files,
\* generate_pdf, once started, goes on to its return without raising; the
\* pages emitted and total_pages are those of a run with every image
\* present, and missing_files lists an absent file once for each card of
\* the list and side it is the image of, and nothing else.
C17_MissingTolerated ==
    /\ [][(pc \in {"ready", "pages"}) => (pc' \in {"pages", "done"})]_vars
    /\ [](pc = "pages" =>
            group_no <= (IF mode = "single" THEN Len(card_names)
                         ELSE Len(groups)))
    /\ [](pc = "done" =>
            /\ Len(canvas) = ExpectedPages
            /\ result.total_pages = ExpectedPages
            /\ result.missing_files = missing_files
            /\ \A n \in 1..Len(missing_files) : missing_files[n] \in absent
            /\ \A p \in absent :
                  TimesReported(p) = Cardinality(CardSidesOf(p)))

\* a finished cut-ready run with one missing back image, reported once
C17_Witness ==
    /\ pc = "done"
    /\ mode = "cut_ready"
    /\ absent = {<< <<"a">>, "back" >>}
    /\ result.missing_files = << << <<"a">>, "back" >> >>
    /\ Len(card_names) >= 2
    /\ Len(canvas) = ExpectedPages

\* the layer an operation of a cut-ready page belongs to
Layer(o) ==
    CASE o.op = "guidelines" -> 1
      [] o.op = "rect" /\ o.fill = 1 -> 2
      [] o.op = "drawImage" -> 3
      [] o.op = "rect" /\ o.fill = 0 -> 4

\* C18: on every front and back page of a cut-ready PDF the layers come in
\* the order guidelines, bleed fill, card images, borders: no guideline is
\* drawn after a bleed rectangle of its page, no bleed rectangle after a
\* card image, no image after a border.
C18_DrawingOrder ==
    mode = "cut_ready" =>
        \A p \in 1..Len(canvas) :
            /\ \E n \in 1..Len(canvas[p]) : canvas[p][n].op = "guidelines"
            /\ \A n1, n2 \in 1..Len(canvas[p]) :
                  n1 < n2 => Layer(canvas[p][n1]) <= Layer(canvas[p][n2])

\* a cut-ready page with all four layers
C18_Witness ==
    /\ mode = "cut_ready"
    /\ Len(canvas) >= 2
    /\ {Layer(canvas[2][n]) : n \in 1..Len(canvas[2])} = {1, 2, 3, 4}

\* the slots of a page of group g that hold an identifier: an entry of the
\* front page is its own slot, slot i of the back page holds back_order[i]
Occupied(g, side) ==
    {i \in 0..(NumSlots - 1) :
        groups[g][(IF side = "front" THEN i ELSE BackOrderAt(i)) + 1] # None}

\* the rectangles of a page drawn with the given fill and stroke
Rects(page, fill, stroke) ==
    {n \in 1..Len(page) :
        /\ page[n].op = "rect"
        /\ page[n].fill = fill /\ page[n].stroke = stroke}

\* the card box of slot i grown by the bleed on every side
BleedBox(i) ==
    [x |-> positions[i + 1][1] - bleed, y |-> positions[i + 1][2] - bleed,
     width |-> card_width + 2 * bleed, height |-> card_height + 2 * bleed]

BoxOf(o) == [x |-> o.x, y |-> o.y, width |-> o.width, height |-> o.height]

\* a page of group g is decorated for its occupied slots and no others
DecoratedFor(page, g, side) ==
    LET occ == Occupied(g, side)
    IN  /\ \A n \in 1..Len(page) :
              page[n].op = "guidelines" =>
                 /\ page[n].verticals =
                       {positions[i + 1][1] : i \in occ}
                       \cup {positions[i + 1][1] + card_width : i \in occ}
                 /\ page[n].horizontals =
                       {positions[i + 1][2] : i \in occ}
                       \cup {positions[i + 1][2] + card_height : i \in occ}
        /\ \A fs \in {<<1, 0>>, <<0, 1>>} :
              /\ Cardinality(Rects(page, fs[1], fs[2])) = Cardinality(occ)
              /\ {BoxOf(page[n]) : n \in Rects(page, fs[1], fs[2])}
                    = {BleedBox(i) : i \in occ}

\* C19: on every cut-ready page, front order and mirrored back order, the
\* guidelines are exactly the left, right, bottom and top edges of the
\* slots that hold an identifier on that page, and a bleed rectangle and a
\* border are drawn for slot i exactly when the identifier placed there is
\* not empty.
C19_DecorationForOccupied ==
    (mode = "cut_ready" /\ pc \in {"pages", "done"}) =>
        \A g \in 1..group_no :
            /\ DecoratedFor(FrontPage(g), g, "front")
            /\ DecoratedFor(BackPage(g), g, "back")

\* a back page with an empty slot among occupied ones, in a grid of
\* several columns
C19_Witness ==
    /\ mode = "cut_ready"
    /\ pc = "done"
    /\ config.cols >= 2
    /\ group_no >= 1
    /\ Occupied(group_no, "back") # {}
    /\ Occupied(group_no, "back") # Occupied(group_no, "front")

-----------------------------------------------------------------------------
(* Claims about the batch processor, checked under SpecBatch. *)

\* C20: process_spells handles every spell of the input once, in input
\* order; an exception raised while a spell's front or back is generated
\* is recorded as a failed ProcessingResult (success False, paths None,
\* error text set), the loop goes on with the next spell, and the results
\* recorded for the earlier spells stay as they were.
C20_BatchContinues ==
    /\ [](/\ Len(handled) = spell_no
          /\ spell_no <= Len(spells)
          /\ \A k \in 1..spell_no : handled[k].name = spells[k]
          /\ pc = "batch_done" => spell_no = Len(spells))
    /\ [][(spell_no' = spell_no + 1
           /\ handled'[spell_no + 1].outcome # "ok") =>
             /\ pc' = "batch"
             /\ results'[spells[spell_no + 1]] =
                   [spell_name |-> spells[spell_no + 1], success |-> FALSE,
                    front_path |-> None, back_path |-> None,
                    error |-> ErrorText]
             /\ \A k \in 1..spell_no :
                   results'[spells[k]] = results[spells[k]]]_vars

\* C21: for every list of spells, process_spells returns one
\* ProcessingResult per input spell, len(results) = len(spells), and
\* get_summary reports total = len(spells) with successful + failed = total.
C21_OneResultPerSpell ==
    pc = "batch_done" =>
        /\ Cardinality(DOMAIN results) = Len(spells)
        /\ get_summary(results).total = Len(spells)
        /\ get_summary(results).successful + get_summary(results).failed
              = get_summary(results).total

\* the files of the output directory once the run is over
Remaining == output_files \ deleted

\* C22: after a run that produced a PDF without --keep-images (and in
\* which no removal failed), none of the PNG files the batch processor
\* wrote for the spells remains in the output directory.
C22_CleanupRemovesAll ==
    (/\ pc = "exit"
     /\ pdf_path # <<>>
     /\ ~args.keep_images
     /\ messages = <<>>) => Remaining = {}

\* C23: files are deleted only by the cleanup that follows a successful
\* PDF generation of the same run; none is deleted with --no-pdf or
\* --keep-images, nor when PDF generation raised, in which case the run
\* returns 1; a failure during cleanup leaves the exit code 0.
C23_CleanupOrdering ==
    /\ [][(deleted' # deleted) =>
            (/\ pc = "cleanup"
             /\ pdf_path # <<>>
             /\ ~args.no_pdf
             /\ ~args.keep_images)]_vars
    /\ []((args # <<>> /\ (args.no_pdf \/ args.keep_images))
             => deleted = {})
    /\ []((messages # <<>> /\ messages[1] = "Error generating PDF")
             => (deleted = {} /\ exit_code = <<1>> /\ pc = "exit"))
    /\ []((pc = "exit" /\ messages # <<>>
              /\ messages[Len(messages)] = "Cleanup warning")
             => exit_code = <<0>>)

C23_Witness ==
    /\ pc = "exit"
    /\ deleted # {}
    /\ Remaining # {}
    /\ messages = <<"Cleanup warning">>
    /\ exit_code = <<0>>

\* the size the solver tests next, and the block and the height it computes
\* for it
Mid == (low + high) \div 2

MidBlock == wrap_text(text, calculate_wrap_width(Mid, max_width))

MidHeight ==
    calculate_text_height(MidBlock, Mid, line_spacing, paragraph_spacing)

MidSum == SumHeights(MidBlock, Mid, line_spacing, paragraph_spacing)

Testing == pc = "loop" /\ low <= high

-----------------------------------------------------------------------------
(* Further claims about the page compositor, checked under SpecPdf. *)

\* the operations of a page that draw at slot i: an image at the slot's
\* position, or a rectangle of the slot's bleed box
DrawnAt(page, i) ==
    {n \in 1..Len(page) :
        \/ n \in ImagesAt(page, i)
        \/ page[n].op = "rect" /\ BoxOf(page[n]) = BleedBox(i)}

\* the slots of a page of group g whose identifier has no image file for
\* the side
MissingSlots(g, side) ==
    {i \in Occupied(g, side) :
        image_path(groups[g][(IF side = "front" THEN i
                              ELSE BackOrderAt(i)) + 1], side) \in absent}

\* C25: when the image of an identifier and side is absent, nothing is
\* drawn in that identifier's slot on that page: no image and, in
\* cut-ready mode, no bleed fill and no border.
C25_MissingSlotBlank ==
    (mode \in GridModes /\ pc \in {"pages", "done"}) =>
        \A g \in 1..group_no :
            /\ \A i \in MissingSlots(g, "front") :
                  DrawnAt(FrontPage(g), i) = {}
            /\ \A i \in MissingSlots(g, "back") :
                  DrawnAt(BackPage(g), i) = {}

Apart(i, j) ==
    \/ positions[i + 1][1] + card_width <= positions[j + 1][1]
    \/ positions[j + 1][1] + card_width <= positions[i + 1][1]
    \/ positions[i + 1][2] + card_height <= positions[j + 1][2]
    \/ positions[j + 1][2] + card_height <= positions[i + 1][2]

\* C30: for every GridConfig accepted by CutReadyPDFGenerator with
\* margin >= 0 and gaps >= 0, every card rectangle lies at least margin
\* inside the page on all four sides, the grid is centred (left offset =
\* right offset, bottom offset = top offset), and no two card rectangles
\* overlap.
C30_CardsOnPage ==
    (/\ mode = "cut_ready"
     /\ pc \in {"ready", "pages", "done"}
     /\ config.margin >= 0 /\ config.gap_x >= 0 /\ config.gap_y >= 0) =>
        LET margin == Units(config, config.margin)
            last == NumSlots - 1
        IN  /\ \A i \in 0..last :
                  /\ positions[i + 1][1] >= margin
                  /\ positions[i + 1][1] + card_width <= page_width - margin
                  /\ positions[i + 1][2] >= margin
                  /\ positions[i + 1][2] + card_height
                        <= page_height - margin
            /\ positions[1][1]
                  = page_width - (positions[last + 1][1] + card_width)
            /\ positions[1][2]
                  = page_height - (positions[last + 1][2] + card_height)
            /\ \A i, j \in 0..last : i # j => Apart(i, j)

\* an accepted plan of several rows and columns with margins and gaps
C30_Witness ==
    /\ mode = "cut_ready"
    /\ pc = "done"
    /\ config.rows >= 2 /\ config.cols >= 2
    /\ config.margin > 0 /\ config.gap_x > 0 /\ config.gap_y > 0
    /\ positions[1][1] > Units(config, config.margin)
    /\ Len(canvas) >= 2

\* C28: generate_pdf of all three generators leaves the caller's
\* card_names as it was (the padding goes to copies of the slices), and
\* positions, back_order and the card dimensions keep, through every page
\* of the run and after generate_pdf, the values they had after
\* construction.
C28_LayoutInputsUnchanged ==
    [][(pc \in {"ready", "pages"}) =>
          (/\ card_names' = card_names
           /\ positions' = positions
           /\ back_order' = back_order
           /\ card_width' = card_width
           /\ card_height' = card_height)]_vars

\* a finished run whose last group was padded
C28_Witness ==
    /\ pc = "done"
    /\ mode \in GridModes
    /\ Len(card_names) % NumSlots # 0
    /\ groups[Len(groups)][NumSlots] = None
    /\ \A k \in 1..Len(card_names) : card_names[k] # None
    /\ Len(canvas) = 2 * Len(groups)

-----------------------------------------------------------------------------
(* Claims about the render methods, checked under SpecRender. *)

\* the text does not fit the box at any size of the range, as the branch
\* of render_text_centered taken tests it
NothingFits ==
    \A size \in min_size..max_size :
        IF fixed
        THEN calculate_text_height(wrap_text(text, wrap_width[1]), size,
                                   DEFAULT_LINE_SPACING,
                                   DEFAULT_PARAGRAPH_SPACING) > max_height
        ELSE ~Fits(size)

\* C27: in render_text_centered the font size the text is drawn with is
\* within [min_font_size, max_font_size], whether the size comes from the
\* solver or from the decrement loop of a given wrap_width; when nothing
\* fits it is min_font_size.
C27_SizeInRange ==
    (fn = "render_text_centered" /\ pc \in {"draw", "rendered"}) =>
        /\ min_size <= font_size /\ font_size <= max_size
        /\ NothingFits => font_size = min_size
        /\ \A n \in 1..Len(drawn) : drawn[n].size = font_size

\* a render method has returned, having taken its size from the solver
SolverSized == pc = "rendered" /\ ~fixed

\* the y the block starts at, the bottom of the last line drawn, and the
\* height calculate_text_height gives for the drawn block
BlockTop == start_y(fn, anchor, lines, font_size)

Bottom ==
    drawn[Len(drawn)].y
        + MeasureHeight(drawn[Len(drawn)].text, drawn[Len(drawn)].size)

BlockHeight ==
    calculate_text_height(lines, font_size, line_spacing, paragraph_spacing)

\* the drawn block is the one the solver measured at the returned size
SameBlock ==
    /\ font_size = find_optimal_font_size(text, min_size, max_size,
                                          max_width, max_height,
                                          line_spacing, paragraph_spacing)
    /\ wrap_width = <<calculate_wrap_width(font_size, max_width)>>
    /\ lines = wrap_text(text, wrap_width[1])
    /\ \A n \in 1..Len(drawn) : drawn[n].size = font_size
    /\ (drawn # <<>> /\ lines[1] # None) => drawn[1].y = BlockTop

\* C29 as stated: both methods draw the block the solver measured, and the
\* distance from the top of the block to the bottom of the last drawn line
\* equals calculate_text_height of the block; so a size that fits keeps
\* the block above top + max_height.
C29_AsClaimed ==
    SolverSized =>
        /\ SameBlock
        /\ drawn # <<>> =>
              /\ Bottom - BlockTop = BlockHeight
              /\ Fits(font_size) => Bottom <= BlockTop + max_height

\* C29: both methods draw the block the solver measured; the distance from
\* the top of the block to the bottom of the last drawn line is at most
\* calculate_text_height of the block, and equal to it when the block ends
\* with a text line; so a size that fits keeps the block above
\* top + max_height.
C29_DrawnWithinHeight ==
    SolverSized =>
        /\ SameBlock
        /\ drawn # <<>> =>
              /\ Bottom - BlockTop <= BlockHeight
              /\ lines[Len(lines)] # None => Bottom - BlockTop = BlockHeight
              /\ Fits(font_size) => Bottom <= BlockTop + max_height

C29_Witness ==
    /\ SolverSized
    /\ Len(drawn) >= 1
    /\ lines[Len(lines)] = None
    /\ Fits(font_size)
    /\ Bottom - BlockTop < BlockHeight

=============================================================================
